---- MODULE Spec2Model ----
(***************************************************************************)
(* A model of watermark-v0.1.py: the ImageWatermarker class (construction, *)
(* watermark loading, resize / position / alpha arithmetic, the per-file   *)
(* transform and the directory loop) and main().                           *)
(*                                                                         *)
(* Spec is a run of main(): argument parsing, construction, the directory  *)
(* loop and the summary line.  PositionSpec, ResizeSpec, AlphaSpec and     *)
(* GeometrySpec each call one method of the class directly, on inputs      *)
(* drawn from bounded sets.                                                *)
(***************************************************************************)
EXTENDS Integers, Sequences, FiniteSets

VARIABLES
    pc,         \* where main() is: start, parsed, ready, listed, done, usage, crashed
    args,       \* the parsed command line (argparse namespace)
    self,       \* the ImageWatermarker's fields
    disk,       \* what the run found on / did to the file system
    listing,    \* os.listdir(self.input_dir), in enumeration order
    idx,        \* entries of listing the loop has consumed
    successful, \* process_directory's counter
    failed,     \* process_directory's counter
    calls,      \* filenames process_image was called with, in order
    results,    \* what each of those calls returned (a path or None)
    log,        \* records handed to logging, in order
    exc,        \* the uncaught exception that ended the run, or None
    fn          \* a direct method call: its inputs and, once made, its result

vars == <<pc, args, self, disk, listing, idx, successful, failed, calls,
          results, log, exc, fn>>

\* Python's None, where the other values are records (paths, images).
None == [none |-> TRUE]

NoExc == "no exception"

NoRef == "no object"

\* ------------------------------------------------------------------------
\* Bounds of the model.
\* ------------------------------------------------------------------------
MaxFiles == 2       \* entries in the input directory
MaxDim == 6         \* calculate_position: image and watermark sides 0..MaxDim
MaxPad == 2         \* calculate_position: padding 0..MaxPad
MaxBaseW == 16      \* resize_watermark: base image width 1..MaxBaseW
MaxGeoK == 8        \* process_image geometry: base sides GeoStep * (1..MaxGeoK)
GeoStep == 8
MaxWmSide == 13     \* resize_watermark: watermark sides 1..MaxWmSide
MaxScaleNum == 15   \* scales are k/ScaleDen, k in 0..MaxScaleNum

\* ------------------------------------------------------------------------
\* Program constants.
\* ------------------------------------------------------------------------
ScaleDen == 10          \* --scale is a decimal; the default is 0.1 = 1/10
FallbackW == 150
FallbackH == 50
FallbackFillAlpha == 128
DefaultPadding == 10
AlphaMax == 255
DefaultTransparency == 128
LimbBits == 13          \* a double's 52 fraction bits, held as 4 limbs of 13

\* ------------------------------------------------------------------------
\* Python float arithmetic.  A positive double is [m, e]: m is its 53
\* mantissa bits, most significant (always 1) first, and its value is
\* 1.m[2]m[3]... * 2^e.  Division and multiplication round to nearest,
\* ties to even; int() truncates.  The arithmetic on the 52 fraction bits
\* is done on 4 limbs of 13 bits, so that every intermediate integer stays
\* below 2^31 for operands below 2^16.
\* ------------------------------------------------------------------------
Limb == 2 ^ LimbBits

NLimbs == 4

MantissaBits == NLimbs * LimbBits + 1

Abs(x) == IF x < 0 THEN -x ELSE x

Sign(x) == IF x < 0 THEN -1 ELSE IF x = 0 THEN 0 ELSE 1

RECURSIVE Normalize(_, _, _)
\* n/d = (num/den) * 2^e with 1 <= num/den < 2, for n, d > 0.
Normalize(n, d, e) ==
    IF n < d THEN Normalize(2 * n, d, e - 1)
    ELSE IF n >= 2 * d THEN Normalize(n, 2 * d, e + 1)
    ELSE [num |-> n, den |-> d, e |-> e]

\* The next 4 limbs of the quotient r/den (r < den) and what remains.
DivLimbs(r, den) ==
    LET s1 == r * Limb
        s2 == (s1 % den) * Limb
        s3 == (s2 % den) * Limb
        s4 == (s3 % den) * Limb
    IN  [f |-> <<s1 \div den, s2 \div den, s3 \div den, s4 \div den>>,
         rem |-> s4 % den]

\* The 52 bits of 4 limbs, most significant first.
FracBits(f) ==
    [i \in 1..(NLimbs * LimbBits) |->
        (f[((i - 1) \div LimbBits) + 1]
            \div (2 ^ (LimbBits - 1 - ((i - 1) % LimbBits)))) % 2]

BitLen(t) == CHOOSE k \in 1..30 : 2 ^ (k - 1) <= t /\ t < 2 ^ k

\* The binary digits of t >= 1, most significant first.
IntBits(t) == [j \in 1..BitLen(t) |-> (t \div (2 ^ (BitLen(t) - j))) % 2]

RECURSIVE BitsToInt(_, _)
BitsToInt(bits, i) ==
    IF i = 0 THEN 0 ELSE 2 * BitsToInt(bits, i - 1) + bits[i]

\* The 4 fraction limbs of a mantissa.
Limbs(m) ==
    [i \in 1..NLimbs |->
        BitsToInt(SubSeq(m, 2 + LimbBits * (i - 1), 1 + LimbBits * i), LimbBits)]

\* Round-to-nearest-even of a mantissa given whether the discarded part is
\* above, at or below one half of the last kept place (1, 0, -1).
RoundBits(bits, e, half) ==
    LET up == half = 1 \/ (half = 0 /\ bits[Len(bits)] = 1)
        zeros == {i \in 1..Len(bits) : bits[i] = 0}
        p == CHOOSE i \in zeros : \A j \in zeros : j <= i
    IN  IF ~up THEN [m |-> bits, e |-> e]
        ELSE IF zeros = {}
             THEN [m |-> [i \in 1..Len(bits) |-> IF i = 1 THEN 1 ELSE 0],
                   e |-> e + 1]
             ELSE [m |-> [i \in 1..Len(bits) |->
                            IF i < p THEN bits[i] ELSE IF i = p THEN 1 ELSE 0],
                   e |-> e]

\* The double nearest to n/d, for integers n, d > 0.
FloatDiv(n, d) ==
    LET nm == Normalize(n, d, 0)
        q == DivLimbs(nm.num - nm.den, nm.den)
        half == IF 2 * q.rem > nm.den THEN 1
                ELSE IF 2 * q.rem = nm.den /\ q.rem > 0 THEN 0 ELSE -1
    IN  RoundBits(<<1>> \o FracBits(q.f), nm.e, half)

\* The double nearest to a * x, for an integer a > 0 and a double x.
FloatMul(a, x) ==
    LET f == Limbs(x.m)
        t4 == f[4] * a
        t3 == f[3] * a + (t4 \div Limb)
        t2 == f[2] * a + (t3 \div Limb)
        t1 == f[1] * a + (t2 \div Limb)
        t0 == a + (t1 \div Limb)
        prod == IntBits(t0) \o FracBits(<<t1 % Limb, t2 % Limb, t3 % Limb, t4 % Limb>>)
        k == Len(prod) - MantissaBits
        kept == SubSeq(prod, 1, MantissaBits)
        rest == SubSeq(prod, MantissaBits + 1, Len(prod))
        sticky == \E j \in 2..Len(rest) : rest[j] = 1
        half == IF k = 0 \/ rest[1] = 0 THEN -1
                ELSE IF sticky THEN 1 ELSE 0
    IN  RoundBits(kept, x.e + k, half)

\* int(x) for a positive double x below 2^30.
FloatTrunc(x) == IF x.e < 0 THEN 0 ELSE BitsToInt(x.m, x.e + 1)

\* int(a * (n / d)) as Python computes it on floats: n / d is rounded to a
\* double, the product is rounded again, int() truncates toward zero.
IntMulDiv(a, n, d) ==
    IF a = 0 \/ n = 0 THEN 0
    ELSE Sign(a) * Sign(n) * Sign(d)
         * FloatTrunc(FloatMul(Abs(a), FloatDiv(Abs(n), Abs(d))))

\* ------------------------------------------------------------------------
\* Images.  An image is [size, mode, alpha]: size is <<width, height>>, and
\* alpha lists the alpha levels of the image's uniform regions (empty for a
\* mode without an alpha band).  Resampling keeps the level of a uniform
\* region, so a resized image carries the same levels.
\* ------------------------------------------------------------------------
NewImage(size, mode, alpha) == [size |-> size, mode |-> mode, alpha |-> alpha]

\* Image.convert('RGBA'): a new image; a mode without alpha becomes opaque.
ConvertRGBA(im) ==
    NewImage(im.size, "RGBA", IF im.mode = "RGBA" THEN im.alpha ELSE <<AlphaMax>>)

\* The synthesized text watermark: a transparent 150x50 RGBA canvas with
\* the text drawn in (0, 0, 0, 128).
TextWatermark == NewImage(<<FallbackW, FallbackH>>, "RGBA", <<0, FallbackFillAlpha>>)

\* ------------------------------------------------------------------------
\* resize_watermark.
\* ------------------------------------------------------------------------
\* A rounding variant of the height computation (nearest, halves up).
resize_height_rounded(wm_size, new_width) ==
    <<new_width, (2 * wm_size[2] * new_width + wm_size[1]) \div (2 * wm_size[1])>>

\* new_height = int(watermark.height * (new_width / watermark.width))
resize_height(wm_size, new_width) ==
    <<new_width, IntMulDiv(wm_size[2], new_width, wm_size[1])>>

\* new_width = int(base_image.width * scale), then the height from it.
resize_dims(wm_size, base_w, scale) ==
    resize_height(wm_size, IntMulDiv(base_w, scale[1], scale[2]))

\* A variant that resizes the watermark object it was given, in place.
image_resize_in_place(heap, wm, size) ==
    IF size[1] < 1 \/ size[2] < 1
    THEN [raised |-> "ValueError", heap |-> heap, ref |-> NoRef]
    ELSE [raised |-> NoExc,
          heap |-> [heap EXCEPT ![wm] = NewImage(size, heap[wm].mode, heap[wm].alpha)],
          ref |-> wm]

\* watermark.resize(size, Image.LANCZOS): a new image of the requested size
\* and the same mode; ValueError unless both sides are at least 1.  heap
\* maps object names to images; the result names the new object.
image_resize(heap, wm, size) ==
    IF size[1] < 1 \/ size[2] < 1
    THEN [raised |-> "ValueError", heap |-> heap, ref |-> NoRef]
    ELSE [raised |-> NoExc,
          heap |-> [heap EXCEPT !["scaled"] =
                        NewImage(size, heap[wm].mode, heap[wm].alpha)],
          ref |-> "scaled"]

resize_watermark(heap, wm, base_size, scale) ==
    image_resize(heap, wm, resize_dims(heap[wm].size, base_size[1], scale))

\* ------------------------------------------------------------------------
\* calculate_position.
\* ------------------------------------------------------------------------
Positions == {"top-left", "top-right", "bottom-left", "bottom-right", "center"}

UnknownPositions == {"nowhere", "Top-Right"}

positions(image, watermark, padding) ==
    [p \in Positions |->
        CASE p = "top-left" -> <<padding, padding>>
          [] p = "top-right" -> <<image[1] - watermark[1] - padding, padding>>
          [] p = "bottom-left" -> <<padding, image[2] - watermark[2] - padding>>
          [] p = "bottom-right" -> <<image[1] - watermark[1] - padding,
                                     image[2] - watermark[2] - padding>>
          [] p = "center" -> <<(image[1] - watermark[1]) \div 2,
                               (image[2] - watermark[2]) \div 2>>]

\* A variant whose right and bottom edges forget the watermark's own size.
calculate_position_anchor_only(image, watermark, position, padding) ==
    CASE position \in {"top-left", "center"} ->
             positions(image, watermark, padding)[position]
      [] position = "bottom-left" -> <<padding, image[2] - padding>>
      [] position = "bottom-right" -> <<image[1] - padding, image[2] - padding>>
      [] OTHER -> <<image[1] - padding, padding>>

\* A variant whose default is the first entry of the table.
calculate_position_default_first(image, watermark, position, padding) ==
    IF position \in DOMAIN positions(image, watermark, padding)
    THEN positions(image, watermark, padding)[position]
    ELSE positions(image, watermark, padding)["top-left"]

\* positions.get(position, positions['top-right'])
calculate_position(image, watermark, position, padding) ==
    IF position \in DOMAIN positions(image, watermark, padding)
    THEN positions(image, watermark, padding)[position]
    ELSE positions(image, watermark, padding)["top-right"]

\* ------------------------------------------------------------------------
\* add_watermark.
\* ------------------------------------------------------------------------
\* A variant that overwrites the alpha with the transparency value.
enhance_flat(a, transparency) == transparency

\* ImageEnhance.Brightness(alpha).enhance(transparency / 255) on one 8-bit
\* level a: the blend of black and a with factor transparency/255, cut to
\* an integer.  Pillow multiplies in single precision; for every a and
\* transparency in 0..255 that product truncates to floor(a*transparency/255).
enhance(a, transparency) == (a * transparency) \div AlphaMax

\* The watermark is rebound to an RGBA copy when its mode is not RGBA; the
\* adjusted alpha is put into that object, in place.  Pasting clips to the
\* canvas, so any position is accepted.  The result is the canvas in RGB.
add_watermark(heap, image, wm, position, transparency) ==
    LET conv == heap[wm].mode # "RGBA"
        h1 == IF conv THEN [heap EXCEPT !["converted"] = ConvertRGBA(heap[wm])]
              ELSE heap
        w1 == IF conv THEN "converted" ELSE wm
        alpha == [i \in DOMAIN h1[w1].alpha |-> enhance(h1[w1].alpha[i], transparency)]
    IN  [heap |-> [h1 EXCEPT ![w1].alpha = alpha],
         wm |-> w1,
         out |-> NewImage(image.size, "RGB", <<>>)]

\* ------------------------------------------------------------------------
\* Paths and file names.  A path is [path |-> tokens]: each token is a run
\* of ordinary text or one whitespace character.  A file name is the
\* sequence of its characters.
\* ------------------------------------------------------------------------
Path(tokens) == [path |-> tokens]

Whitespace == {" ", "\n", "\r", "\t"}

RECURSIVE LStrip(_)
LStrip(t) == IF t # <<>> /\ Head(t) \in Whitespace THEN LStrip(Tail(t)) ELSE t

RECURSIVE RStrip(_)
RStrip(t) ==
    IF t # <<>> /\ t[Len(t)] \in Whitespace THEN RStrip(SubSeq(t, 1, Len(t) - 1))
    ELSE t

\* path.strip().replace('\n', '').replace('\r', ''); None has no strip().
clean_path(p) ==
    IF p = None THEN [raised |-> "AttributeError", value |-> None]
    ELSE [raised |-> NoExc,
          value |-> Path(SelectSeq(RStrip(LStrip(p.path)),
                                   LAMBDA c : c \notin {"\n", "\r"}))]

\* os.path.join(directory, name)
Join(dir, name) == [dir |-> dir, name |-> name]

UpperCase == <<"A", "B", "C", "D", "E", "F", "G", "H", "I", "J", "K", "L", "M",
               "N", "O", "P", "Q", "R", "S", "T", "U", "V", "W", "X", "Y", "Z">>

LowerCase == <<"a", "b", "c", "d", "e", "f", "g", "h", "i", "j", "k", "l", "m",
               "n", "o", "p", "q", "r", "s", "t", "u", "v", "w", "x", "y", "z">>

\* str.lower()
Lower(str) ==
    [i \in DOMAIN str |->
        IF \E k \in DOMAIN UpperCase : UpperCase[k] = str[i]
        THEN LowerCase[CHOOSE k \in DOMAIN UpperCase : UpperCase[k] = str[i]]
        ELSE str[i]]

\* os.path.splitext(name)[1]: from the last dot on, unless only dots
\* precede it.
splitext_ext(name) ==
    LET dots == {i \in DOMAIN name : name[i] = "."}
        dot == CHOOSE i \in dots : \A j \in dots : j <= i
    IN  IF dots = {} THEN <<>>
        ELSE IF \E j \in 1..(dot - 1) : name[j] # "." THEN SubSeq(name, dot, Len(name))
        ELSE <<>>

supported_formats ==
    {<<".", "p", "n", "g">>, <<".", "j", "p", "g">>, <<".", "j", "p", "e", "g">>,
     <<".", "b", "m", "p">>, <<".", "w", "e", "b", "p">>}

\* os.path.splitext(filename)[1].lower() in supported_formats
is_supported(filename) == Lower(splitext_ext(filename)) \in supported_formats

\* ------------------------------------------------------------------------
\* Exceptions.
\* ------------------------------------------------------------------------
\* A variant of process_image's handler: except OSError.
process_image_catches_os_errors(e) ==
    e \in {"OSError", "FileNotFoundError", "PermissionError",
           "IsADirectoryError", "UnidentifiedImageError"}

\* process_image: except Exception.  Everything raised in its try block
\* is an Exception.
process_image_catches(e) == TRUE

\* _load_watermark: except (FileNotFoundError, AttributeError).
load_watermark_catches(e) == e \in {"FileNotFoundError", "AttributeError"}

\* What Image.open raises on a file in the given condition.
OpenRaises(kind) ==
    CASE kind = "image" -> NoExc
      [] kind = "missing" -> "FileNotFoundError"
      [] kind = "denied" -> "PermissionError"
      [] kind = "directory" -> "IsADirectoryError"
      [] kind = "corrupt" -> "UnidentifiedImageError"

Entry(level, msg, data) == [level |-> level, msg |-> msg, data |-> data]

\* ------------------------------------------------------------------------
\* _load_watermark.  logo is the condition of the file at self.logo_path.
\* ------------------------------------------------------------------------
load_watermark(logo_path, logo) ==
    LET opened == IF logo_path # None /\ logo_path.path # <<>>
                  THEN OpenRaises(logo.kind) ELSE NoExc
        uses_logo == logo_path # None /\ logo_path.path # <<>> /\ opened = NoExc
    IN  IF opened # NoExc /\ ~load_watermark_catches(opened)
        THEN [raised |-> opened, watermark |-> None, log |-> <<>>]
        ELSE IF uses_logo
        THEN [raised |-> NoExc, watermark |-> logo.image,
              log |-> <<Entry("INFO", "Watermark loaded", logo.image.size)>>]
        ELSE [raised |-> NoExc, watermark |-> TextWatermark,
              log |-> IF opened # NoExc
                      THEN <<Entry("WARNING", "Logo not found. Using text watermark instead.", opened)>>
                      ELSE <<>>]

\* ------------------------------------------------------------------------
\* _create_output_dir, given the cleaned output_dir.
\* ------------------------------------------------------------------------
create_output_dir(input_dir, output_dir) ==
    IF output_dir.path = <<>> THEN Path(Append(input_dir.path, "watermarked"))
    ELSE output_dir

Unbuilt ==
    [input_dir |-> None, output_dir |-> None, logo_path |-> None,
     watermark_img |-> None]

\* ------------------------------------------------------------------------
\* ImageWatermarker.__init__, statement by statement; the first exception
\* ends it.  ops are the file system operations it performed.
\* ------------------------------------------------------------------------
init(a, logo) ==
    LET input_dir == clean_path(a.input_dir)
        cleaned_out == clean_path(a.output_dir)
        output_dir == create_output_dir(input_dir.value, cleaned_out.value)
        logo_path == IF a.logo_path # None /\ a.logo_path.path # <<>>
                     THEN clean_path(a.logo_path).value ELSE None
        lw == load_watermark(logo_path, logo)
        s1 == [Unbuilt EXCEPT !.input_dir = input_dir.value]
        s2 == [s1 EXCEPT !.output_dir = output_dir, !.logo_path = logo_path]
        made == <<[op |-> "makedirs", on |-> output_dir],
                  [op |-> "open log file", on |-> output_dir]>>
    IN  IF input_dir.raised # NoExc
        THEN [raised |-> input_dir.raised, self |-> Unbuilt, log |-> <<>>, ops |-> <<>>]
        ELSE IF cleaned_out.raised # NoExc
        THEN [raised |-> cleaned_out.raised, self |-> s1, log |-> <<>>, ops |-> <<>>]
        ELSE IF lw.raised # NoExc
        THEN [raised |-> lw.raised, self |-> s2, log |-> lw.log, ops |-> made]
        ELSE [raised |-> NoExc, self |-> [s2 EXCEPT !.watermark_img = lw.watermark],
              log |-> lw.log, ops |-> made]

\* ------------------------------------------------------------------------
\* process_image on the file found at input_dir/filename, statement by
\* statement.  The heap holds the objects the call can reach: the template
\* (self.watermark_img), the scaled watermark and its RGBA copy.
\* ------------------------------------------------------------------------
\* What a call leaves behind: raised is what its try block raised, heap the
\* objects at that point, geom the scaled size, offset and adjusted alpha
\* when the composition was reached.
outcome(slf, filename, file, raised, heap, geom) ==
    [ret |-> IF raised = NoExc THEN Join(slf.output_dir, filename) ELSE None,
     propagated |-> IF raised # NoExc /\ ~process_image_catches(raised)
                    THEN raised ELSE NoExc,
     watermark_img |-> heap.template,
     geom |-> geom,
     log |-> (IF OpenRaises(file.kind) = NoExc
              THEN <<Entry("INFO", "Processing", filename)>> ELSE <<>>)
             \o (IF raised = NoExc
                 THEN <<Entry("INFO", "Successfully processed", filename)>>
                 ELSE IF process_image_catches(raised)
                 THEN <<Entry("ERROR", "Error processing", filename)>>
                 ELSE <<>>),
     ops |-> <<[op |-> "open", on |-> Join(slf.input_dir, filename)]>>
             \o (IF geom # <<>>
                 THEN <<[op |-> "save", on |-> Join(slf.output_dir, filename)]>>
                 ELSE <<>>)]

\* watermarked_img.save(output_path, quality=95)
save_step(slf, filename, file, size, pos, aw) ==
    outcome(slf, filename, file, IF file.save_ok THEN NoExc ELSE "OSError",
            aw.heap, <<size, pos, aw.heap[aw.wm].alpha>>)

\* watermarked_img = self.add_watermark(img, scaled_watermark, ...)
blend_step(slf, filename, file, transparency, rs, pos) ==
    save_step(slf, filename, file, rs.heap[rs.ref].size, pos,
              add_watermark(rs.heap, NewImage(file.size, "RGB", <<>>), rs.ref,
                            pos, transparency))

\* A variant that positions the template instead of the scaled watermark.
position_step_unscaled(slf, filename, file, position, transparency, rs) ==
    IF rs.raised # NoExc
    THEN outcome(slf, filename, file, rs.raised, rs.heap, <<>>)
    ELSE blend_step(slf, filename, file, transparency, rs,
                    calculate_position(file.size, rs.heap.template.size, position,
                                       DefaultPadding))

\* watermark_position = self.calculate_position(img, scaled_watermark, position)
position_step(slf, filename, file, position, transparency, rs) ==
    IF rs.raised # NoExc
    THEN outcome(slf, filename, file, rs.raised, rs.heap, <<>>)
    ELSE blend_step(slf, filename, file, transparency, rs,
                    calculate_position(file.size, rs.heap[rs.ref].size, position,
                                       DefaultPadding))

\* img = Image.open(img_path), converted to RGB; then
\* scaled_watermark = self.resize_watermark(self.watermark_img, img, scale)
process_image(slf, filename, file, scale, position, transparency) ==
    IF OpenRaises(file.kind) # NoExc
    THEN outcome(slf, filename, file, OpenRaises(file.kind),
                 [template |-> slf.watermark_img], <<>>)
    ELSE position_step(slf, filename, file, position, transparency,
                       resize_watermark([template |-> slf.watermark_img,
                                         scaled |-> None, converted |-> None],
                                        "template", file.size, scale))

\* ------------------------------------------------------------------------
\* The inputs of a run of main().
\* ------------------------------------------------------------------------
Scales == {<<k, ScaleDen>> : k \in 0..MaxScaleNum}

MainScales == {<<1, ScaleDen>>, <<ScaleDen, ScaleDen>>}

Transparencies == {DefaultTransparency, AlphaMax}

CommandLines ==
    [input_dir : {None, Path(<<"in", "\n">>)},
     output_dir : {None, Path(<<>>), Path(<<"out">>)},
     logo_path : {None, Path(<<"logo.png">>)},
     scale : MainScales,
     position : Positions \cup {"nowhere"},
     transparency : Transparencies]

\* What may be found at the logo path.
LogoFiles ==
    {[kind |-> "image", image |-> NewImage(<<20, 10>>, "RGB", <<>>)],
     [kind |-> "image", image |-> NewImage(<<11, 11>>, "RGBA", <<AlphaMax, 64>>)],
     [kind |-> "missing", image |-> None],
     [kind |-> "corrupt", image |-> None],
     [kind |-> "denied", image |-> None]}

NoLogo == [kind |-> "unread", image |-> None]

\* The entries an input directory may hold.
FileNames ==
    {<<"a", ".", "p", "n", "g">>, <<"b", ".", "J", "P", "G">>,
     <<"c", ".", "t", "x", "t">>, <<".", "p", "n", "g">>}

\* What may be found at an entry: a readable image, a truncated file, a
\* readable image whose output cannot be written.
InputFiles ==
    {[kind |-> "image", size |-> <<200, 100>>, mode |-> "RGB", save_ok |-> TRUE],
     [kind |-> "image", size |-> <<15, 15>>, mode |-> "L", save_ok |-> TRUE],
     [kind |-> "corrupt", size |-> <<0, 0>>, mode |-> "", save_ok |-> TRUE],
     [kind |-> "image", size |-> <<200, 100>>, mode |-> "RGB", save_ok |-> FALSE]}

\* os.listdir never names an entry twice.
Listings ==
    {l \in UNION {[1..n -> FileNames] : n \in 0..MaxFiles} :
        \A i, j \in DOMAIN l : i # j => l[i] # l[j]}

NoCall == [op |-> "none"]

Init ==
    /\ pc = "start"
    /\ args \in CommandLines
    /\ self = Unbuilt
    /\ disk = [logo |-> NoLogo, input_dir_exists |-> TRUE, files |-> <<>>, ops |-> <<>>]
    /\ listing = <<>>
    /\ idx = 0
    /\ successful = 0
    /\ failed = 0
    /\ calls = <<>>
    /\ results = <<>>
    /\ log = <<>>
    /\ exc = NoExc
    /\ fn = NoCall

\* ------------------------------------------------------------------------
\* main().
\* ------------------------------------------------------------------------
\* parser.parse_args(): --input-dir is required and --position has choices;
\* argparse exits with status 2 otherwise.
ParseArgs ==
    /\ pc = "start"
    /\ pc' = IF args.input_dir = None \/ args.position \notin Positions
             THEN "usage" ELSE "parsed"
    /\ UNCHANGED <<args, self, disk, listing, idx, successful, failed, calls,
                   results, log, exc, fn>>

\* watermarker = ImageWatermarker(...)
Construct ==
    /\ pc = "parsed"
    /\ \E logo \in IF args.logo_path = None THEN {NoLogo} ELSE LogoFiles :
         LET r == init(args, logo)
         IN  /\ self' = r.self
             /\ disk' = [disk EXCEPT !.logo = logo, !.ops = @ \o r.ops]
             /\ log' = log \o r.log
             /\ exc' = r.raised
             /\ pc' = IF r.raised = NoExc THEN "ready" ELSE "crashed"
    /\ UNCHANGED <<args, listing, idx, successful, failed, calls, results, fn>>

\* process_directory up to the loop: os.listdir(self.input_dir), which
\* raises FileNotFoundError when the directory does not exist.
ListDir ==
    /\ pc = "ready"
    /\ \E exists \in BOOLEAN :
         /\ disk' = [disk EXCEPT !.input_dir_exists = exists]
         /\ IF exists
            THEN /\ listing' \in Listings
                 /\ pc' = "loop"
                 /\ exc' = exc
            ELSE /\ listing' = listing
                 /\ pc' = "crashed"
                 /\ exc' = "FileNotFoundError"
    /\ successful' = 0
    /\ failed' = 0
    /\ UNCHANGED <<args, self, idx, calls, results, log, fn>>

\* One iteration of the loop over os.listdir: the filter, the call of
\* process_image and the counters.
ProcessEntry ==
    /\ pc = "loop"
    /\ idx < Len(listing)
    /\ LET filename == listing[idx + 1]
       IN  IF ~is_supported(filename)
           THEN /\ idx' = idx + 1
                /\ UNCHANGED <<pc, self, disk, successful, failed, calls,
                               results, log, exc>>
           ELSE \E file \in InputFiles :
                  \E r \in {process_image(self, filename, file, args.scale,
                                          args.position, args.transparency)} :
                      /\ self' = [self EXCEPT !.watermark_img = r.watermark_img]
                      /\ disk' = [disk EXCEPT !.files = Append(@, file),
                                              !.ops = @ \o r.ops]
                      /\ log' = log \o r.log
                      /\ calls' = Append(calls, filename)
                      /\ IF r.propagated # NoExc
                         THEN /\ pc' = "crashed"
                              /\ exc' = r.propagated
                              /\ UNCHANGED <<idx, successful, failed, results>>
                         ELSE /\ pc' = pc
                              /\ exc' = exc
                              /\ idx' = idx + 1
                              /\ results' = Append(results, r.ret)
                              /\ successful' = IF r.ret # None
                                               THEN successful + 1 ELSE successful
                              /\ failed' = IF r.ret # None THEN failed ELSE failed + 1
    /\ UNCHANGED <<args, listing, fn>>

\* return successful, failed; then main logs the summary.
Finish ==
    /\ pc = "loop"
    /\ idx = Len(listing)
    /\ log' = Append(log, Entry("INFO", "Processing complete", <<successful, failed>>))
    /\ pc' = "done"
    /\ UNCHANGED <<args, self, disk, listing, idx, successful, failed, calls,
                   results, exc, fn>>

Next == ParseArgs \/ Construct \/ ListDir \/ ProcessEntry \/ Finish

Spec == Init /\ [][Next]_vars

\* ------------------------------------------------------------------------
\* Direct calls of the class's methods.  Each specification draws one call
\* with its inputs, then makes it: fn.done tells the two states apart and
\* fn.out is what the call returned.
\* ------------------------------------------------------------------------
Sides(n) == (0..n) \X (0..n)

Idle ==
    /\ pc = "fn"
    /\ args = None
    /\ self = Unbuilt
    /\ disk = [logo |-> NoLogo, input_dir_exists |-> TRUE, files |-> <<>>, ops |-> <<>>]
    /\ listing = <<>>
    /\ idx = 0
    /\ successful = 0
    /\ failed = 0
    /\ calls = <<>>
    /\ results = <<>>
    /\ log = <<>>
    /\ exc = NoExc

Called(op) == fn.op = op /\ fn.done

Returns(op, out) ==
    /\ fn.op = op
    /\ ~fn.done
    /\ fn' = [fn EXCEPT !.done = TRUE, !.out = out]
    /\ UNCHANGED <<pc, args, self, disk, listing, idx, successful, failed, calls,
                   results, log, exc>>

\* calculate_position(image, watermark, position, padding)
InitPosition ==
    /\ Idle
    /\ fn \in [op : {"calculate_position"}, image : Sides(MaxDim),
               watermark : Sides(MaxDim), position : Positions \cup UnknownPositions,
               padding : 0..MaxPad, done : {FALSE}, out : {<<>>}]

CallCalculatePosition ==
    Returns("calculate_position",
            calculate_position(fn.image, fn.watermark, fn.position, fn.padding))

PositionSpec == InitPosition /\ [][CallCalculatePosition]_vars

\* resize_watermark(watermark, base_image, scale)
InitResize ==
    /\ Idle
    /\ fn \in [op : {"resize_watermark"},
               watermark : (1..MaxWmSide) \X (1..MaxWmSide),
               base_w : 1..MaxBaseW, scale : Scales, done : {FALSE}, out : {<<>>}]

\* The size of the image a resize_watermark call returned.
Resized(rs) == IF rs.raised = NoExc THEN rs.heap[rs.ref].size ELSE <<>>

CallResizeWatermark ==
    Returns("resize_watermark",
            Resized(resize_watermark(
                [template |-> NewImage(fn.watermark, "RGBA", <<AlphaMax>>),
                 scaled |-> None, converted |-> None],
                "template", <<fn.base_w, fn.base_w>>, fn.scale)))

ResizeSpec == InitResize /\ [][CallResizeWatermark]_vars

\* add_watermark(image, watermark, position, transparency) on a watermark
\* of one alpha level a, and again with the transparency raised by one,
\* all else fixed.  fn.out is the pair of adjusted levels.
InitAlpha ==
    /\ Idle
    /\ fn \in [op : {"add_watermark"}, a : 0..AlphaMax, transparency : 0..AlphaMax,
               done : {FALSE}, out : {<<>>}]

AdjustedAlpha(a, transparency) ==
    add_watermark([template |-> None, scaled |-> NewImage(<<1, 1>>, "RGBA", <<a>>),
                   converted |-> None],
                  NewImage(<<1, 1>>, "RGB", <<>>), "scaled", <<0, 0>>,
                  transparency).heap.scaled.alpha[1]

CallAddWatermark ==
    Returns("add_watermark",
            <<AdjustedAlpha(fn.a, fn.transparency),
              AdjustedAlpha(fn.a, IF fn.transparency < AlphaMax
                                  THEN fn.transparency + 1 ELSE AlphaMax)>>)

AlphaSpec == InitAlpha /\ [][CallAddWatermark]_vars

\* process_image on a readable image of the given size, with the given
\* template.  fn.out is the geometry of the composition, <<>> if none.
GeoSides == {GeoStep * k : k \in 1..MaxGeoK}

GeoTemplates == {<<FallbackW, FallbackH>>, <<11, 11>>, <<4, 8>>}

InitGeometry ==
    /\ Idle
    /\ fn \in [op : {"process_image"}, template : GeoTemplates,
               base : GeoSides \X GeoSides, scale : Scales, position : Positions,
               done : {FALSE}, out : {<<>>}]

CallProcessImage ==
    Returns("process_image",
            process_image(
                [Unbuilt EXCEPT !.input_dir = Path(<<"in">>),
                                !.output_dir = Path(<<"out">>),
                                !.watermark_img = NewImage(fn.template, "RGBA", <<AlphaMax>>)],
                <<"a", ".", "p", "n", "g">>,
                [kind |-> "image", size |-> fn.base, mode |-> "RGB", save_ok |-> TRUE],
                fn.scale, fn.position, DefaultTransparency).geom)

GeometrySpec == InitGeometry /\ [][CallProcessImage]_vars

\* ------------------------------------------------------------------------
\* Properties.
\* ------------------------------------------------------------------------
Constructed == pc \in {"ready", "loop", "done"}

\* An entry whose extension, lower-cased, is one of the five formats.
Matching(name) ==
    Lower(splitext_ext(name)) \in
        {<<".", "p", "n", "g">>, <<".", "j", "p", "g">>, <<".", "j", "p", "e", "g">>,
         <<".", "b", "m", "p">>, <<".", "w", "e", "b", "p">>}

IsPath(r) == r # None

IsNone(r) == r = None

\* C1: process_directory never stops its loop on a per-file failure: after
\* idx entries, process_image has been called exactly once, in enumeration
\* order, for each of the first idx entries whose lower-cased extension is
\* supported and for no other; every call returned; successful counts the
\* calls that returned a path and failed those that returned None; at the
\* end every entry has been consumed, so successful + failed is the number
\* of matching entries.  No exception of process_image ends the run.
C1_LoopCountsEveryMatch ==
    /\ pc \in {"loop", "done"} =>
         /\ calls = SelectSeq(SubSeq(listing, 1, idx), Matching)
         /\ Len(results) = Len(calls)
         /\ \A i \in DOMAIN results :
              results[i] \in {None, Join(self.output_dir, calls[i])}
         /\ successful = Len(SelectSeq(results, IsPath))
         /\ failed = Len(SelectSeq(results, IsNone))
    /\ pc = "done" =>
         /\ idx = Len(listing)
         /\ successful + failed = Len(SelectSeq(listing, Matching))
    /\ pc = "crashed" => calls = <<>>

\* C1 witness: a corrupt file followed by a valid one ends with (1, 1).
C1_Witness ==
    /\ pc = "done"
    /\ Len(calls) = 2
    /\ disk.files[1].kind = "corrupt"
    /\ disk.files[2].kind = "image"
    /\ results[1] = None
    /\ results[2] # None
    /\ successful = 1
    /\ failed = 1

\* C2: whenever a logo path is given and opening it fails (missing,
\* permission denied or corrupt), _load_watermark does not raise, logs a
\* warning and returns the text watermark, so construction completes.
C2_LogoFailureNotFatal ==
    (/\ pc \in {"ready", "loop", "done", "crashed"}
     /\ self.output_dir # None
     /\ args.logo_path # None
     /\ disk.logo.kind \in {"missing", "denied", "corrupt"})
    => /\ self.watermark_img = TextWatermark
       /\ \E i \in DOMAIN log : log[i].level = "WARNING"

\* C3: when --output-dir is omitted, construction succeeds and the output
\* directory is <input-dir>/watermarked, created if missing.
C3_DefaultOutputDir ==
    (/\ pc \in {"ready", "loop", "done", "crashed"}
     /\ args.output_dir = None)
    => /\ self.output_dir = Path(Append(self.input_dir.path, "watermarked"))
       /\ \E i \in DOMAIN disk.ops :
            disk.ops[i] = [op |-> "makedirs", on |-> self.output_dir]

\* C4: for each of the five modes and non-negative sizes and padding with
\* wmW + 2*padding <= baseW and wmH + 2*padding <= baseH, the offset keeps
\* the watermark's box inside the image.
C4_OffsetInsideImage ==
    (/\ Called("calculate_position")
     /\ fn.position \in Positions
     /\ fn.watermark[1] + 2 * fn.padding <= fn.image[1]
     /\ fn.watermark[2] + 2 * fn.padding <= fn.image[2])
    => /\ 0 <= fn.out[1]
       /\ fn.out[1] + fn.watermark[1] <= fn.image[1]
       /\ 0 <= fn.out[2]
       /\ fn.out[2] + fn.watermark[2] <= fn.image[2]

\* C4 witness: bottom-right of a 2x1 watermark on a 6x5 image, padding 2.
C4_Witness ==
    /\ Called("calculate_position")
    /\ fn.position = "bottom-right"
    /\ fn.image = <<6, 5>>
    /\ fn.watermark = <<2, 1>>
    /\ fn.padding = 2
    /\ fn.out = <<2, 2>>

\* Whether a box of the given size at the given offset lies in the image.
Inside(image, size, offset) ==
    /\ 0 <= offset[1]
    /\ offset[1] + size[1] <= image[1]
    /\ 0 <= offset[2]
    /\ offset[2] + size[2] <= image[2]

ScalePositive == fn.scale[1] > 0

\* C5 as stated: in process_image, for every base image, template, scale > 0
\* and mode, the offset places the scaled watermark fully inside the base
\* image.
C5_AlwaysInside ==
    (Called("process_image") /\ ScalePositive /\ fn.out # <<>>)
    => Inside(fn.base, fn.out[1], fn.out[2])

\* C5 amended: in process_image, for every base image, template, scale > 0
\* and mode, the offset places the scaled watermark fully inside the base
\* image whenever the scaled watermark leaves room for the padding of 10
\* on both sides of each axis.
C5_InsideWhenPaddingFits ==
    (/\ Called("process_image")
     /\ ScalePositive
     /\ fn.out # <<>>
     /\ fn.out[1][1] + 2 * DefaultPadding <= fn.base[1]
     /\ fn.out[1][2] + 2 * DefaultPadding <= fn.base[2])
    => Inside(fn.base, fn.out[1], fn.out[2])

\* C5 witness: the 150x50 template at scale 0.5 on a 64x64 image is 32x10
\* and goes bottom-right to (22, 44).
C5_Witness ==
    /\ Called("process_image")
    /\ fn.template = <<FallbackW, FallbackH>>
    /\ fn.base = <<64, 64>>
    /\ fn.scale = <<5, ScaleDen>>
    /\ fn.position = "bottom-right"
    /\ fn.out[1] = <<32, 10>>
    /\ fn.out[2] = <<22, 44>>

\* The exact quotients the two sizes are cut from.
ExactWidth == (fn.base_w * fn.scale[1]) \div fn.scale[2]

ExactHeight == (fn.watermark[2] * fn.out[1]) \div fn.watermark[1]

\* C6 as stated: the width is floor(base width * scale) and the height is
\* watermark.height * newWidth / watermark.width rounded to the nearest
\* integer.
C6_HeightRounded ==
    (Called("resize_watermark") /\ ScalePositive /\ fn.out # <<>>)
    => /\ fn.out[1] = ExactWidth
       /\ (2 * fn.out[2] - 1) * fn.watermark[1] <= 2 * fn.watermark[2] * fn.out[1]
       /\ 2 * fn.watermark[2] * fn.out[1] <= (2 * fn.out[2] + 1) * fn.watermark[1]

\* C6 amended: both sizes are truncated, not rounded.  The height never
\* exceeds floor(watermark.height * newWidth / watermark.width); it is that
\* floor whenever the quotient is not an integer and that integer or one
\* less when it is (the product of doubles can fall just below it).  The
\* width stands to floor(base width * scale) in the same way.
C6_HeightTruncated ==
    (Called("resize_watermark") /\ ScalePositive /\ fn.out # <<>>)
    => /\ fn.out[1] \in {ExactWidth - 1, ExactWidth}
       /\ (fn.base_w * fn.scale[1]) % fn.scale[2] # 0 => fn.out[1] = ExactWidth
       /\ fn.out[2] \in {ExactHeight - 1, ExactHeight}
       /\ (fn.watermark[2] * fn.out[1]) % fn.watermark[1] # 0 => fn.out[2] = ExactHeight

\* C6 witness: a resize whose exact height has a fraction above one half
\* and is cut down.
C6_Witness ==
    /\ Called("resize_watermark")
    /\ fn.watermark = <<3, 4>>
    /\ fn.base_w = 5
    /\ fn.scale = <<ScaleDen, ScaleDen>>
    /\ fn.out = <<5, 6>>

\* C7: the template is never mutated: once constructed, whatever calls of
\* process_image were made, self.watermark_img is what _load_watermark
\* returned.
C7_TemplateUnchanged ==
    Constructed =>
        self.watermark_img = load_watermark(self.logo_path, disk.logo).watermark

\* C7 witness: an RGBA logo, transparency below 255, one file watermarked
\* and one failed.
C7_Witness ==
    /\ pc = "done"
    /\ self.watermark_img = NewImage(<<11, 11>>, "RGBA", <<AlphaMax, 64>>)
    /\ args.transparency = DefaultTransparency
    /\ successful = 1
    /\ failed = 1

\* C8 as stated: transparency 0 gives alpha 0, transparency 255 leaves the
\* alpha unchanged, and between them raising the transparency strictly
\* increases the alpha of a pixel that has any.
C8_StrictlyIncreasing ==
    Called("add_watermark")
    => /\ fn.transparency = 0 => fn.out[1] = 0
       /\ fn.transparency = AlphaMax => fn.out[1] = fn.a
       /\ (fn.transparency < AlphaMax /\ fn.a > 0) => fn.out[1] < fn.out[2]

\* C8 amended: transparency 0 gives alpha 0, transparency 255 leaves the
\* alpha unchanged, and raising the transparency never lowers the adjusted
\* alpha, which never exceeds the original.
C8_NonDecreasing ==
    Called("add_watermark")
    => /\ fn.transparency = 0 => fn.out[1] = 0
       /\ fn.transparency = AlphaMax => fn.out[1] = fn.a
       /\ fn.out[1] <= fn.out[2]
       /\ fn.out[2] <= fn.a

\* C8 witness: alpha 128 at transparency 128 and at 129 is 64 both times.
C8_Witness ==
    /\ Called("add_watermark")
    /\ fn.a = FallbackFillAlpha
    /\ fn.transparency = DefaultTransparency
    /\ fn.out = <<64, 64>>

\* C9: the run always completes with the summary; only configuration
\* errors stop it, before any file is opened or written.
C9_OnlyUsageErrorsStop ==
    /\ pc # "crashed"
    /\ pc = "usage" => disk.ops = <<>>
    /\ pc = "done" =>
         log[Len(log)] = Entry("INFO", "Processing complete", <<successful, failed>>)

\* C10: an unknown position string gives exactly the top-right offset.
C10_UnknownIsTopRight ==
    (Called("calculate_position") /\ fn.position \notin Positions)
    => fn.out = <<fn.image[1] - fn.watermark[1] - fn.padding, fn.padding>>

\* C10 witness: "nowhere" for a 2x3 watermark on a 6x6 image, padding 1.
C10_Witness ==
    /\ Called("calculate_position")
    /\ fn.position = "nowhere"
    /\ fn.image = <<6, 6>>
    /\ fn.watermark = <<2, 3>>
    /\ fn.padding = 1
    /\ fn.out = <<3, 1>>

====
